---- MODULE Spec2Model ----
(***************************************************************************)
(* Model of the animated fish background of jijinbei-homepage:             *)
(*   - the boid flock step (applyBoidRules, updateFishAnimation /          *)
(*     the body of animate in App.tsx),                                    *)
(*   - the component lifecycle (effect, asynchronous initialisation,       *)
(*     frame loop, effect cleanup) of App.tsx and of the split component   *)
(*     ThreeFishScene (src/unnamed/part_000) that drives the fish module   *)
(*     (src/unnamed/part_001).                                             *)
(*                                                                         *)
(* Numbers are fixed point: one simulation unit is Unit model units, and   *)
(* every product or quotient the code computes in floating point is        *)
(* rounded to the nearest model unit.                                      *)
(***************************************************************************)
EXTENDS Integers, Sequences, FiniteSets, TLC

VARIABLES
    impl,          \* "app": src/src/App.tsx, "mod": part_000 + part_001
    innerWidth,    \* window.innerWidth  (pixels)
    innerHeight,   \* window.innerHeight (pixels)
    mouseRef,      \* mouseRef.current: [x, y] in screen pixels
    fishesRef,     \* fishesRef.current: sequence of Fish records
    starsRef,      \* starsRef.current: sequence of Star records
    fishModelRef,  \* fishModelRef.current: 0 (undefined) or the load that set it
    mountRef,      \* mountRef.current: "div" or "null"
    mountChildren, \* the elements appended to the mount div
    sceneRef,      \* sceneRef.current: 0 (undefined) or a scene
    scenes,        \* per scene (of effect run e): the number of fish meshes added
    cameraRef,     \* cameraRef.current: 0 (undefined) or a camera id
    cameras,       \* per camera (of effect run e): its frustum [width, height]
    rendererRef,   \* rendererRef.current: 0 (undefined) or a renderer id
    renderers,     \* per renderer (of effect run e): [created, disposed, width, height]
    canvasRef,     \* canvasRef.current: 0 (null) or a canvas id
    canvases,      \* per star canvas (of effect run e): [created, width, height]
    animationRef,  \* animationRef.current: 0 (undefined) or a frame handle
    pending,       \* handles of the frame callbacks requested and not yet run
    nextHandle,    \* the last handle requestAnimationFrame returned
    listeners,     \* effect runs whose resize/mousemove handlers are registered
    effects,       \* per effect run: where its initialisation stands
    errorLog,      \* number of console.error calls
    thrown,        \* exceptions no handler caught: <<kind, effect run>>
    stageLog,      \* the stages the last frame tick performed, in order
    frames,        \* number of frame ticks / flock steps taken so far
    lastOp         \* the operation that produced the current state

flockVars == <<impl, innerWidth, innerHeight, mouseRef, fishesRef>>

domVars == <<mountRef, mountChildren, sceneRef, scenes, cameraRef, cameras,
             rendererRef, renderers, canvasRef, canvases>>

loopVars == <<animationRef, pending, nextHandle, stageLog, frames>>

lifeVars == <<starsRef, fishModelRef, listeners, effects, errorLog, thrown>>

vars == <<flockVars, domVars, loopVars, lifeVars, lastOp>>

-----------------------------------------------------------------------------
(* Fixed-point arithmetic                                                  *)

\* Model units per simulation unit (resolution 0.005).
Unit == 2 * 100

Abs(a) == IF a < 0 THEN -a ELSE a

Max2(a, b) == IF a > b THEN a ELSE b

Min2(a, b) == IF a < b THEN a ELSE b

\* a / b rounded to the nearest integer, halves away from zero (b > 0).
RDivNat(a, b) == IF 2 * (a % b) >= b THEN (a \div b) + 1 ELSE a \div b

RDiv(a, b) == IF a >= 0 THEN RDivNat(a, b) ELSE -RDivNat(-a, b)

\* Floor of the square root, by bisection on [lo, hi].
RECURSIVE SqrtBetween(_, _, _)
SqrtBetween(n, lo, hi) ==
    IF lo >= hi THEN lo
    ELSE LET mid == (lo + hi + 1) \div 2
         IN  IF mid * mid <= n THEN SqrtBetween(n, mid, hi)
             ELSE SqrtBetween(n, lo, mid - 1)

ISqrt(n) == SqrtBetween(n, 0, 46340)

-----------------------------------------------------------------------------
(* THREE.Vector3                                                           *)

Vec(a, b, c) == [x |-> a, y |-> b, z |-> c]

Zero3 == Vec(0, 0, 0)

VAdd(a, b) == Vec(a.x + b.x, a.y + b.y, a.z + b.z)

VSub(a, b) == Vec(a.x - b.x, a.y - b.y, a.z - b.z)

\* v * num / den, each component rounded.
VScale(v, num, den) == Vec(RDiv(v.x * num, den), RDiv(v.y * num, den), RDiv(v.z * num, den))

MaxAbs(v) == Max2(Abs(v.x), Max2(Abs(v.y), Abs(v.z)))

LengthSq(v) == v.x * v.x + v.y * v.y + v.z * v.z

\* Components brought into a range where squares neither overflow nor lose
\* the direction: the largest component ends between 1000 and 20000.
Rescaled(v) ==
    LET m == MaxAbs(v)
    IN  IF m = 0 THEN v
        ELSE IF m > 20000 THEN VScale(v, 1, (m \div 20000) + 1)
        ELSE IF m < 1000 THEN VScale(v, 20000 \div m, 1)
        ELSE v

\* v.normalize().multiplyScalar(len): normalize() divides by (length() || 1),
\* so the zero vector stays the zero vector.
SetLength(v, len) ==
    IF MaxAbs(v) = 0 THEN Zero3
    ELSE LET w == Rescaled(v)
             l == ISqrt(LengthSq(w))
         IN  VScale(w, len, l)

\* distanceTo(..) < radius, for a difference vector d, without overflow.
Within(d, radius) ==
    /\ Abs(d.x) < radius
    /\ Abs(d.y) < radius
    /\ Abs(d.z) < radius
    /\ LET r1 == radius * radius - d.x * d.x
           r2 == r1 - d.y * d.y
       IN  r2 > 0 /\ r2 - d.z * d.z > 0

-----------------------------------------------------------------------------
(* Program constants of the two variants                                   *)

separationRadius == 50 * Unit
alignmentRadius == 80 * Unit
cohesionRadius == 120 * Unit
mouseAttractionRadius == 200 * Unit

\* Weights 0.5, 0.1, 0.05 and 0.3.
separationWeight == Unit \div 2
alignmentWeight == Unit \div 10
cohesionWeight == Unit \div 20
mouseWeight == (3 * Unit) \div 10

\* maxSpeed: 3 in App.tsx, 5 in the fish-animation module.
maxSpeed(v) == IF v = "app" THEN 3 * Unit ELSE 5 * Unit

\* Damping factor in percent: 0.99 in App.tsx, 0.98 in the module.
damping(v) == IF v = "app" THEN 99 ELSE 98

\* Depth bound of the simulation box.
zBound == 100 * Unit

halfWidthOf(w) == (w * Unit) \div 2

halfHeightOf(h) == (h * Unit) \div 2

-----------------------------------------------------------------------------
(* Fish and its mesh                                                       *)

\* A clone of the fish model: its position, the direction it was last
\* turned to (the zero vector: never turned) and the scene it was added to.
Mesh(pos, sceneId) == [isNull |-> FALSE, position |-> pos, rotation |-> Zero3, parent |-> sceneId]

Fish(i, pos, vel, sceneId) ==
    [id |-> i, position |-> pos, velocity |-> vel, mesh |-> Mesh(pos, sceneId)]

-----------------------------------------------------------------------------
(* applyBoidRules                                                          *)

\* Gain of one separation term: diff.normalize().divideScalar(distance) is
\* diff / distance^2, kept here as diff * SepGain / distance^2.
SepGain == 1000 * Unit

\* The accumulators before any neighbor is visited.
NoNeighbors ==
    [separation |-> Zero3, separationCount |-> 0,
     alignment |-> Zero3, alignmentCount |-> 0,
     cohesion |-> Zero3, cohesionCount |-> 0]

\* A separation test without the zero-distance guard.
SeparatesAtZero(diff) == Within(diff, separationRadius)

\* distance < separationRadius && distance > 0
Separates(diff) == Within(diff, separationRadius) /\ MaxAbs(diff) > 0

\* The body of neighbors.forEach: one neighbor added to the accumulators.
VisitNeighbor(acc, fish, neighbor) ==
    IF neighbor.id = fish.id THEN acc
    ELSE
      LET diff == VSub(fish.position, neighbor.position)
          inSep == Separates(diff)
          inAli == Within(diff, alignmentRadius)
          inCoh == Within(diff, cohesionRadius)
          dsq == LengthSq(diff)
      IN  [separation |->
               IF inSep THEN VAdd(acc.separation, VScale(diff, SepGain, dsq))
               ELSE acc.separation,
           separationCount |-> acc.separationCount + (IF inSep THEN 1 ELSE 0),
           alignment |->
               IF inAli THEN VAdd(acc.alignment, neighbor.velocity)
               ELSE acc.alignment,
           alignmentCount |-> acc.alignmentCount + (IF inAli THEN 1 ELSE 0),
           cohesion |->
               IF inCoh THEN VAdd(acc.cohesion, neighbor.position)
               ELSE acc.cohesion,
           cohesionCount |-> acc.cohesionCount + (IF inCoh THEN 1 ELSE 0)]

RECURSIVE VisitNeighbors(_, _, _, _)
VisitNeighbors(acc, fish, neighbors, k) ==
    IF k > Len(neighbors) THEN acc
    ELSE VisitNeighbors(VisitNeighbor(acc, fish, neighbors[k]), fish, neighbors, k + 1)

\* The pointer in simulation coordinates (centered, y flipped).
MousePos(mousePosition, w, h) ==
    Vec(mousePosition.x * Unit - halfWidthOf(w),
        -(mousePosition.y * Unit - halfHeightOf(h)),
        0)

\* A pointer that attracts from any distance.
MouseAttractionEverywhere(fish, mousePosition, w, h) ==
    SetLength(VSub(MousePos(mousePosition, w, h), fish.position), mouseWeight)

\* The pointer attraction: 0.3 toward the pointer within its radius.
MouseAttraction(fish, mousePosition, w, h) ==
    LET toMouse == VSub(MousePos(mousePosition, w, h), fish.position)
    IN  IF Within(toMouse, mouseAttractionRadius) /\ MaxAbs(toMouse) > 0
        THEN SetLength(toMouse, mouseWeight)
        ELSE Zero3

\* divideScalar(count) with count > 0 keeps the direction, so the average is
\* normalized from the sum; the centroid minus the own position has the
\* direction of the sum minus count times the own position.
SeparationForce(acc) ==
    IF acc.separationCount > 0 THEN SetLength(acc.separation, separationWeight) ELSE Zero3

AlignmentForce(acc) ==
    IF acc.alignmentCount > 0 THEN SetLength(acc.alignment, alignmentWeight) ELSE Zero3

CohesionForce(acc, fish) ==
    IF acc.cohesionCount > 0
    THEN SetLength(VSub(acc.cohesion,
                        Vec(acc.cohesionCount * fish.position.x,
                            acc.cohesionCount * fish.position.y,
                            acc.cohesionCount * fish.position.z)),
                   cohesionWeight)
    ELSE Zero3

applyBoidRules(fish, neighbors, mousePosition, w, h) ==
    LET acc == VisitNeighbors(NoNeighbors, fish, neighbors, 1)
    IN  VAdd(VAdd(VAdd(SeparationForce(acc), AlignmentForce(acc)),
                  CohesionForce(acc, fish)),
             MouseAttraction(fish, mousePosition, w, h))

-----------------------------------------------------------------------------
(* updateFishAnimation (part_001) / the flock loop of animate (App.tsx)    *)

\* A step without the speed cap.
LimitSpeedUncapped(vel, v) == vel

\* Speed cap: above maxSpeed the velocity is rescaled to maxSpeed.
LimitSpeed(vel, v) ==
    IF LengthSq(vel) > maxSpeed(v) * maxSpeed(v) THEN SetLength(vel, maxSpeed(v)) ELSE vel

Damp(vel, v) == VScale(vel, damping(v), 100)

Clamp(a, bound) == Max2(-bound, Min2(bound, a))

OutOfBound(a, bound) == a < -bound \/ a > bound

\* A bounce that loses no energy.
ReflectElastic(a, vel, bound) == IF OutOfBound(a, bound) THEN -vel ELSE vel

\* velocity component after the boundary check on its axis: times -0.8.
Reflect(a, vel, bound) == IF OutOfBound(a, bound) THEN RDiv(vel * (-8), 10) ELSE vel

\* A boundary check that reflects the velocity but leaves the position.
ClampedNowhere(a, bound) == a

\* position component after the boundary check on its axis.
Clamped(a, bound) == IF OutOfBound(a, bound) THEN Clamp(a, bound) ELSE a

\* Orientation is rewritten only above a speed of 0.01.
turnThreshold == Unit \div 100

\* An orientation that follows any velocity.
TurnsAlways(vel) == vel # Zero3

\* fish.velocity.length() > 0.01
Turns(vel) == LengthSq(vel) > turnThreshold * turnThreshold

\* lookAt(position + direction) and the fixed quarter turn: the orientation
\* is kept as the direction looked along, normalized to length Unit.
Orientation(mesh, vel) == IF Turns(vel) THEN SetLength(vel, Unit) ELSE mesh.rotation

\* A step in which every fish reads a pointer of its own: the pointer moves
\* 100 px to the right per fish while the step runs.
StepFishMovingPointer(fish, fishes, jitter, mousePosition, w, h, v) ==
    LET seen == [x |-> mousePosition.x + 100 * fish.id, y |-> mousePosition.y]
        v1 == VAdd(VAdd(fish.velocity, applyBoidRules(fish, fishes, seen, w, h)), jitter)
        v2 == Damp(LimitSpeed(v1, v), v)
        p1 == VAdd(fish.position, v2)
        v3 == Vec(Reflect(p1.x, v2.x, halfWidthOf(w)), Reflect(p1.y, v2.y, halfHeightOf(h)),
                  Reflect(p1.z, v2.z, zBound))
        p2 == Vec(Clamped(p1.x, halfWidthOf(w)), Clamped(p1.y, halfHeightOf(h)),
                  Clamped(p1.z, zBound))
    IN  [fish EXCEPT !.velocity = v3,
                     !.position = p2,
                     !.mesh = [fish.mesh EXCEPT !.position = p2,
                                                !.rotation = Orientation(fish.mesh, v3)]]

\* The body of fishes.forEach for one fish, given the whole (partly updated)
\* list, the jitter drawn for it, the pointer and the viewport.
StepFish(fish, fishes, jitter, mousePosition, w, h, v) ==
    IF fish.mesh.isNull THEN fish
    ELSE
      LET boidForce == applyBoidRules(fish, fishes, mousePosition, w, h)
          v1 == VAdd(VAdd(fish.velocity, boidForce), jitter)
          v2 == Damp(LimitSpeed(v1, v), v)
          p1 == VAdd(fish.position, v2)
          hw == halfWidthOf(w)
          hh == halfHeightOf(h)
          v3 == Vec(Reflect(p1.x, v2.x, hw), Reflect(p1.y, v2.y, hh), Reflect(p1.z, v2.z, zBound))
          p2 == Vec(Clamped(p1.x, hw), Clamped(p1.y, hh), Clamped(p1.z, zBound))
      IN  [fish EXCEPT !.velocity = v3,
                       !.position = p2,
                       !.mesh = [fish.mesh EXCEPT !.position = p2,
                                                  !.rotation = Orientation(fish.mesh, v3)]]

\* fishes.forEach: the fish are updated one after the other, in place, so
\* fish k sees the new state of the fish before it.
RECURSIVE UpdateFrom(_, _, _, _, _, _, _)
UpdateFrom(fishes, k, jitters, mousePosition, w, h, v) ==
    IF k > Len(fishes) THEN fishes
    ELSE LET next == [fishes EXCEPT ![k] =
                         StepFish(fishes[k], fishes, jitters[k], mousePosition, w, h, v)]
         IN  UpdateFrom(next, k + 1, jitters, mousePosition, w, h, v)

\* A step that computes every fish from the list as it was before the step.
updateFishAtOnce(fishes, jitters, mousePosition, w, h, v) ==
    [i \in 1..Len(fishes) |-> StepFish(fishes[i], fishes, jitters[i], mousePosition, w, h, v)]

\* fishes.forEach over the list, in place, from the first fish on.
updateFishAnimation(fishes, jitters, mousePosition, w, h, v) ==
    UpdateFrom(fishes, 1, jitters, mousePosition, w, h, v)

-----------------------------------------------------------------------------
(* initializeFish                                                          *)

\* Number of fish the model creates per batch (the code creates 32).
NumFish == 2

\* Number of random draws (seeds) the model tries for one batch.
NumSeeds == 4

\* Random draws for a batch, one list per seed and one entry per fish (used
\* cyclically). p is the position in simulation units: (Math.random() - 0.5)
\* * 400 on x and y, Math.random() * 100 - 50 on z. d is the velocity in
\* quarters of the largest component the variant draws on that axis.
SpawnDraws ==
    << \* two fish chasing the pointer, a third far behind
       << [p |-> Vec(60, 60, 0), d |-> Vec(-4, -4, 0)],
          [p |-> Vec(70, 70, 0), d |-> Vec(-4, -4, 0)],
          [p |-> Vec(-150, 0, 30), d |-> Vec(3, 0, 1)] >>,
       \* fish in the corners of the spawn box
       << [p |-> Vec(199, 199, 49), d |-> Vec(3, 3, 3)],
          [p |-> Vec(-200, -200, -50), d |-> Vec(-4, -4, -4)],
          [p |-> Vec(199, -148, 0), d |-> Vec(-4, 3, 0)] >>,
       \* fish on the same spot
       << [p |-> Vec(0, 0, 0), d |-> Vec(0, 0, 0)],
          [p |-> Vec(0, 0, 0), d |-> Vec(1, -2, 1)],
          [p |-> Vec(0, 0, 0), d |-> Vec(0, 0, 0)] >>,
       \* fish far from each other and from the pointer
       << [p |-> Vec(190, -90, 40), d |-> Vec(2, 1, -1)],
          [p |-> Vec(-190, -90, -40), d |-> Vec(0, 3, 0)],
          [p |-> Vec(0, 199, 0), d |-> Vec(-1, 0, 2)] >>,
       \* fish within the alignment and cohesion radii only
       << [p |-> Vec(-30, 10, 5), d |-> Vec(3, -1, 0)],
          [p |-> Vec(30, 10, -5), d |-> Vec(-2, -4, 2)],
          [p |-> Vec(0, 100, 20), d |-> Vec(0, 0, -4)] >> >>

\* Largest velocity component drawn per axis: (Math.random() - 0.5) * 4, * 4
\* and * 1 in the module; * 2, * 2 and * 0.5 in App.tsx.
spawnSpeed(v) == IF v = "app" THEN Vec(Unit, Unit, Unit \div 4) ELSE Vec(2 * Unit, 2 * Unit, Unit \div 2)

SpawnDraw(seed, i) ==
    LET batch == SpawnDraws[((seed - 1) % Len(SpawnDraws)) + 1]
    IN  batch[(i % Len(batch)) + 1]

SpawnPosition(seed, i) ==
    LET p == SpawnDraw(seed, i).p
    IN  Vec(p.x * Unit, p.y * Unit, p.z * Unit)

SpawnVelocity(seed, i, v) ==
    LET d == SpawnDraw(seed, i).d
        m == spawnSpeed(v)
    IN  Vec((d.x * m.x) \div 4, (d.y * m.y) \div 4, (d.z * m.z) \div 4)

\* Array.from({ length }, (_, i) => fish i), every clone added to the scene.
initializeFish(seed, sceneId, v) ==
    [k \in 1..NumFish |->
        Fish(k - 1, SpawnPosition(seed, k - 1), SpawnVelocity(seed, k - 1, v), sceneId)]

-----------------------------------------------------------------------------
(* Inputs of the flock step                                                *)

\* Viewport sizes (window.innerWidth, window.innerHeight) tried.
Viewports == { <<300, 200>>, <<800, 600>> }

\* Pointer positions (clientX, clientY) tried; <<0, 0>> is the initial one.
Pointers == { <<0, 0>>, <<160, 90>> }

\* Jitter: (Math.random() - 0.5) * 0.01 on x and y is within one model unit,
\* (Math.random() - 0.5) * 0.005 on z is below the resolution.
Jitters == << Vec(0, 0, 0), Vec(1, -1, 0) >>

\* The jitter of every fish under draw j.
JitterDraw(j, n) == [k \in 1..n |-> Jitters[((j + k) % Len(Jitters)) + 1]]

\* Largest number of frame ticks / flock steps explored.
MaxFrames == 3

-----------------------------------------------------------------------------
(* Stars: initializeStars and drawStars (App.tsx; the split component      *)
(* imports the same two functions from its star-animation module)          *)

\* Number of stars the model creates (the code creates 80).
NumStars == 2

\* Draws for one star: x and y in percent of the viewport, opacity and
\* baseOpacity in thousandths (each 0.2 + Math.random() * 0.3, drawn
\* independently), twinklePhase in milliradians (Math.random() * 2 * PI).
StarDraws ==
    << [x |-> 0, y |-> 0, opacity |-> 200, baseOpacity |-> 499, twinklePhase |-> 0],
       [x |-> 50, y |-> 99, opacity |-> 350, baseOpacity |-> 300, twinklePhase |-> 1561],
       [x |-> 99, y |-> 20, opacity |-> 499, baseOpacity |-> 200, twinklePhase |-> 6283],
       [x |-> 10, y |-> 70, opacity |-> 420, baseOpacity |-> 410, twinklePhase |-> 4702] >>

initializeStars(seed, w, h) ==
    [k \in 1..NumStars |->
        LET d == StarDraws[((seed + k) % Len(StarDraws)) + 1]
        IN  [x |-> (d.x * w) \div 100, y |-> (d.y * h) \div 100,
             opacity |-> d.opacity, baseOpacity |-> d.baseOpacity,
             twinklePhase |-> d.twinklePhase]]

\* 1000 * sin(x) for x in milliradians, 0 <= x <= 3142 (Bhaskara's formula
\* 16 x (pi - x) / (5 pi^2 - 4 x (pi - x)), exact at 0, pi/6, pi/2, pi).
HalfWave(x) ==
    LET t == x * (3142 - x)
    IN  RDiv(16 * t, (49360820 - 4 * t) \div 1000)

\* 1000 * Math.sin(phase), phase in milliradians.
SinMilli(phase) ==
    LET x == phase % 6283
    IN  IF x <= 3142 THEN HalfWave(x) ELSE -HalfWave(x - 3141)

\* A twinkle of twice the amplitude.
TwinkleStarBright(star) ==
    LET ph == star.twinklePhase + 20
    IN  [star EXCEPT !.twinklePhase = ph,
                     !.opacity = star.baseOpacity + RDiv(SinMilli(ph), 5)]

\* The body of starsRef.current.forEach in drawStars.
TwinkleStar(star) ==
    LET ph == star.twinklePhase + 20
    IN  [star EXCEPT !.twinklePhase = ph,
                     !.opacity = star.baseOpacity + RDiv(SinMilli(ph), 10)]

\* A drawStars that loses the last star and shifts the others.
drawStarsDropping(canvas, stars) ==
    [k \in 1..(Len(stars) - 1) |-> [stars[k] EXCEPT !.x = @ + 1]]

\* drawStars: nothing without a canvas; otherwise every star is advanced and
\* drawn.
drawStars(canvas, stars) ==
    IF canvas = 0 THEN stars ELSE [k \in 1..Len(stars) |-> TwinkleStar(stars[k])]

-----------------------------------------------------------------------------
(* Component lifecycle. Every effect run creates at most one scene, camera, *)
(* renderer and star canvas: each is named by the run that creates it.      *)

\* Largest number of times the effect runs (mount, then re-runs).
MaxEffects == 2

RendererElement(e) == <<"renderer", e>>

CanvasElement(e) == <<"canvas", e>>

NoRenderer == [created |-> FALSE, disposed |-> FALSE, width |-> 0, height |-> 0]

NewRenderer(w, h) == [created |-> TRUE, disposed |-> FALSE, width |-> w, height |-> h]

NoCanvas == [created |-> FALSE, width |-> 0, height |-> 0]

NewCanvas(w, h) == [created |-> TRUE, width |-> w, height |-> h]

Frustum(w, h) == [width |-> w, height |-> h]

NoActiveEffect == \A e \in 1..Len(effects) : ~effects[e].active

\* requestAnimationFrame(animate): a fresh handle, stored in animationRef.
RequestFrame(queue) ==
    /\ nextHandle' = nextHandle + 1
    /\ animationRef' = nextHandle + 1
    /\ pending' = queue \cup {nextHandle + 1}

\* The effect of App.tsx: everything is created synchronously, the model
\* load is started and the first frame is requested.
RunEffectApp ==
    LET e == Len(effects) + 1
    IN  /\ impl = "app"
        /\ scenes' = Append(scenes, 0)
        /\ cameras' = Append(cameras, Frustum(innerWidth, innerHeight))
        /\ renderers' = Append(renderers, NewRenderer(innerWidth, innerHeight))
        /\ canvases' = Append(canvases, NewCanvas(innerWidth, innerHeight))
        /\ mountChildren' = mountChildren \cup {RendererElement(e), CanvasElement(e)}
        /\ canvasRef' = e
        /\ sceneRef' = e
        /\ cameraRef' = e
        /\ rendererRef' = e
        /\ listeners' = listeners \cup {e}
        /\ starsRef' = initializeStars(e, innerWidth, innerHeight)
        /\ effects' = Append(effects, [pc |-> "model", active |-> TRUE])
        /\ RequestFrame(pending)
        /\ UNCHANGED <<fishesRef, fishModelRef, mountRef, errorLog, thrown>>

\* The effect of the split component: the listeners are registered and
\* initializeComponents runs up to its first await (initializeRenderer).
RunEffectMod ==
    LET e == Len(effects) + 1
    IN  /\ impl = "mod"
        /\ listeners' = listeners \cup {e}
        /\ scenes' = Append(scenes, 0)
        /\ cameras' = Append(cameras, Frustum(innerWidth, innerHeight))
        /\ renderers' = Append(renderers, NoRenderer)
        /\ canvases' = Append(canvases, NoCanvas)
        /\ sceneRef' = e
        /\ cameraRef' = e
        /\ effects' = Append(effects, [pc |-> "renderer", active |-> TRUE])
        /\ UNCHANGED <<fishesRef, starsRef, fishModelRef, mountRef, mountChildren,
                       rendererRef, canvasRef, animationRef, pending, nextHandle,
                       errorLog, thrown>>

\* React runs the effect on mount and again after a cleanup that left the
\* component mounted (a re-run on the same instance).
RunEffect ==
    /\ mountRef = "div"
    /\ NoActiveEffect
    /\ Len(effects) < MaxEffects
    /\ (RunEffectApp \/ RunEffectMod)
    /\ lastOp' = "effect"
    /\ UNCHANGED <<impl, innerWidth, innerHeight, mouseRef, stageLog, frames>>

\* initializeComponents of run e resumes after await initializeRenderer():
\* the renderer is stored, its element and the star canvas are appended to
\* the mount, the stars are created and the model load is started.
RendererReady(e) ==
    /\ impl = "mod"
    /\ effects[e].pc = "renderer"
    /\ renderers' = [renderers EXCEPT ![e] = NewRenderer(innerWidth, innerHeight)]
    /\ rendererRef' = e
    /\ IF mountRef = "null"
       THEN \* mountRef.current.appendChild throws: the rest never runs
            /\ thrown' = thrown \cup {<<"TypeError", e>>}
            /\ effects' = [effects EXCEPT ![e].pc = "threw"]
            /\ UNCHANGED <<mountChildren, canvases, canvasRef, starsRef>>
       ELSE /\ mountChildren' = mountChildren \cup {RendererElement(e), CanvasElement(e)}
            /\ canvases' = [canvases EXCEPT ![e] = NewCanvas(innerWidth, innerHeight)]
            /\ canvasRef' = e
            /\ starsRef' = initializeStars(e, innerWidth, innerHeight)
            /\ effects' = [effects EXCEPT ![e].pc = "model"]
            /\ UNCHANGED thrown
    /\ lastOp' = "renderer"
    /\ UNCHANGED <<flockVars, fishModelRef, mountRef, sceneRef, scenes, cameraRef,
                   cameras, loopVars, listeners, errorLog>>

\* The scene a model-load completion of effect run e adds the fish to:
\* App.tsx reads sceneRef.current when the load completes, the split
\* component passes the scene its own initializeComponents call created.
TargetScene(e) == IF impl = "app" THEN sceneRef ELSE e

\* A load failure that is swallowed without a log entry.
LoadFailedSilently == UNCHANGED <<errorLog, fishModelRef, fishesRef, scenes>>

\* The catch block of loadFishModel: the error is logged, nothing is stored.
LoadFailed ==
    /\ errorLog' = errorLog + 1
    /\ UNCHANGED <<fishModelRef, fishesRef, scenes>>

\* loadFishModel of run e settles. On success the model is stored and a
\* batch of fish is created in the target scene; on failure the error is
\* logged. The split component then requests the first frame.
ModelLoaded(e, ok) ==
    /\ effects[e].pc = "model"
    /\ IF ok
       THEN /\ fishModelRef' = e
            /\ IF impl = "app" /\ sceneRef = 0
               THEN UNCHANGED <<fishesRef, scenes>>
               ELSE /\ fishesRef' = initializeFish(e, TargetScene(e), impl)
                    /\ scenes' = [scenes EXCEPT ![TargetScene(e)] = @ + NumFish]
            /\ UNCHANGED errorLog
       ELSE LoadFailed
    /\ IF impl = "mod"
       THEN RequestFrame(pending)
       ELSE UNCHANGED <<animationRef, pending, nextHandle>>
    /\ effects' = [effects EXCEPT ![e].pc = "done"]
    /\ lastOp' = "model"
    /\ UNCHANGED <<impl, innerWidth, innerHeight, mouseRef, starsRef, mountRef,
                   mountChildren, sceneRef, cameraRef, cameras, rendererRef, renderers,
                   canvasRef, canvases, listeners, thrown, stageLog, frames>>

\* A guard that also waits for the fish model.
CanAnimateLoaded == rendererRef # 0 /\ sceneRef # 0 /\ cameraRef # 0 /\ fishModelRef # 0

\* The guard at the top of animate.
CanAnimate == rendererRef # 0 /\ sceneRef # 0 /\ cameraRef # 0

\* The stages of a tick that steps the flock before it draws the stars.
StagesOfFlockFirst(canvas) ==
    <<"flock">> \o (IF canvas # 0 THEN <<"stars">> ELSE <<>>) \o <<"render", "schedule">>

\* The stages of one run of animate, in the order the code performs them;
\* drawStars counts only when it has a canvas to draw on.
StagesOf(canvas) ==
    (IF canvas # 0 THEN <<"stars">> ELSE <<>>) \o <<"flock", "render", "schedule">>

\* One frame callback (handle h) runs animate; j is the jitter draw.
Tick(h, j) ==
    /\ h \in pending
    /\ frames < MaxFrames
    /\ frames' = frames + 1
    /\ IF CanAnimate
       THEN /\ starsRef' = drawStars(canvasRef, starsRef)
            /\ fishesRef' = updateFishAnimation(fishesRef, JitterDraw(j, Len(fishesRef)),
                                                mouseRef, innerWidth, innerHeight, impl)
            /\ stageLog' = StagesOf(canvasRef)
            /\ RequestFrame(pending \ {h})
       ELSE /\ pending' = pending \ {h}
            /\ stageLog' = <<>>
            /\ UNCHANGED <<starsRef, fishesRef, animationRef, nextHandle>>
    /\ lastOp' = "tick"
    /\ UNCHANGED <<impl, innerWidth, innerHeight, mouseRef, domVars, fishModelRef,
                   listeners, effects, errorLog, thrown>>

\* The renderer the cleanup of effect run e removes and disposes: the one
\* its effect created (App.tsx, by closure) or whatever rendererRef holds
\* when the cleanup runs (split component).
CleanupRenderer(e) == IF impl = "app" THEN e ELSE rendererRef

\* cancelAnimationFrame(animationRef.current), when animationRef is set.
CancelFrame(queue) == IF animationRef # 0 THEN queue \ {animationRef} ELSE queue

\* The effect cleanup of run e. With detach, React has detached the mount
\* ref before it runs the cleanup (unmount); without, the component stays
\* mounted. removeChild throws NotFoundError for an element that is not a
\* child of the mount, and the statements after it do not run.
Cleanup(e, detach) ==
    LET mnt == IF detach THEN "null" ELSE mountRef
        r == CleanupRenderer(e)
        hasR == mnt = "div" /\ r # 0
        throwsR == hasR /\ RendererElement(r) \notin mountChildren
        afterR == IF hasR /\ ~throwsR THEN mountChildren \ {RendererElement(r)}
                  ELSE mountChildren
        hasC == ~throwsR /\ mnt = "div" /\ canvasRef # 0
        throwsC == hasC /\ CanvasElement(canvasRef) \notin afterR
        afterC == IF hasC /\ ~throwsC THEN afterR \ {CanvasElement(canvasRef)} ELSE afterR
        disposes == ~throwsR /\ ~throwsC /\ r # 0
    IN  /\ effects[e].active
        /\ mountRef' = mnt
        /\ listeners' = listeners \ {e}
        /\ pending' = CancelFrame(pending)
        /\ mountChildren' = afterC
        /\ renderers' = IF disposes THEN [renderers EXCEPT ![r].disposed = TRUE]
                        ELSE renderers
        /\ thrown' = IF throwsR \/ throwsC THEN thrown \cup {<<"NotFoundError", e>>}
                     ELSE thrown
        /\ effects' = [effects EXCEPT ![e].active = FALSE]
        /\ lastOp' = "cleanup"
        /\ UNCHANGED <<flockVars, starsRef, fishModelRef, sceneRef, scenes, cameraRef,
                       cameras, rendererRef, canvasRef, canvases, animationRef,
                       nextHandle, errorLog, stageLog, frames>>

\* The camera and the renderer handleResize of effect run e updates: those
\* of its own effect (App.tsx) or those the refs hold (split component).
ResizeCamera(e) == IF impl = "app" THEN e ELSE cameraRef

ResizeRenderer(e) == IF impl = "app" THEN e ELSE rendererRef

\* The effect run whose handlers are registered (the latest one).
Listening == CHOOSE x \in listeners : \A y \in listeners : x >= y

\* The window is resized to w x h; the registered handleResize runs.
Resize(w, h) ==
    /\ <<w, h>> # <<innerWidth, innerHeight>>
    /\ innerWidth' = w
    /\ innerHeight' = h
    /\ IF listeners = {}
       THEN UNCHANGED <<cameras, renderers, canvases>>
       ELSE LET c == ResizeCamera(Listening)
                r == ResizeRenderer(Listening)
            IN  /\ cameras' = IF c # 0 THEN [cameras EXCEPT ![c] = Frustum(w, h)] ELSE cameras
                /\ renderers' = IF r # 0
                                THEN [renderers EXCEPT ![r].width = w, ![r].height = h]
                                ELSE renderers
                /\ canvases' = IF canvasRef # 0
                               THEN [canvases EXCEPT ![canvasRef].width = w,
                                                     ![canvasRef].height = h]
                               ELSE canvases
    /\ lastOp' = "resize"
    /\ UNCHANGED <<impl, mouseRef, fishesRef, mountRef, mountChildren, sceneRef, scenes,
                   cameraRef, rendererRef, canvasRef, loopVars, lifeVars>>

\* The pointer moves to (x, y); the registered handleMouseMove stores it.
MouseMove(x, y) ==
    /\ listeners # {}
    /\ [x |-> x, y |-> y] # mouseRef
    /\ mouseRef' = [x |-> x, y |-> y]
    /\ lastOp' = "mousemove"
    /\ UNCHANGED <<impl, innerWidth, innerHeight, fishesRef, domVars, loopVars, lifeVars>>

-----------------------------------------------------------------------------
(* Specification of the lifecycle: the effect, the asynchronous steps of   *)
(* its initialisation, the frame loop and the cleanup, in any order.       *)

\* The viewport the lifecycle is explored under.
LifeViewport == <<800, 600>>

\* Largest number of frame ticks explored along the lifecycle.
LifeFrames == 2

\* The component is mounted and its effect has not run yet.
Init ==
    /\ impl \in {"app", "mod"}
    /\ innerWidth = LifeViewport[1]
    /\ innerHeight = LifeViewport[2]
    /\ mouseRef = [x |-> 0, y |-> 0]
    /\ fishesRef = <<>>
    /\ starsRef = <<>>
    /\ fishModelRef = 0
    /\ mountRef = "div"
    /\ mountChildren = {}
    /\ sceneRef = 0
    /\ scenes = <<>>
    /\ cameraRef = 0
    /\ cameras = <<>>
    /\ rendererRef = 0
    /\ renderers = <<>>
    /\ canvasRef = 0
    /\ canvases = <<>>
    /\ animationRef = 0
    /\ pending = {}
    /\ nextHandle = 0
    /\ listeners = {}
    /\ effects = <<>>
    /\ errorLog = 0
    /\ thrown = {}
    /\ stageLog = <<>>
    /\ frames = 0
    /\ lastOp = "mount"

Next ==
    \/ RunEffect
    \/ \E e \in 1..Len(effects) : RendererReady(e)
    \/ \E e \in 1..Len(effects), ok \in BOOLEAN : ModelLoaded(e, ok)
    \/ \E h \in pending : frames < LifeFrames /\ Tick(h, 1)
    \/ \E e \in 1..Len(effects), detach \in BOOLEAN : Cleanup(e, detach)

Spec == Init /\ [][Next]_vars

-----------------------------------------------------------------------------
(* Specification of the running scene: the component is initialised with a *)
(* freshly created flock, then frames tick while the window is resized and *)
(* the pointer moves.                                                      *)

InitFlock ==
    /\ impl \in {"app", "mod"}
    /\ \E vp \in Viewports : innerWidth = vp[1] /\ innerHeight = vp[2]
    /\ mouseRef = [x |-> 0, y |-> 0]
    /\ \E seed \in 1..NumSeeds :
          /\ fishesRef = initializeFish(seed, 1, impl)
          /\ starsRef = initializeStars(seed, innerWidth, innerHeight)
    /\ fishModelRef = 1
    /\ mountRef = "div"
    /\ mountChildren = {RendererElement(1), CanvasElement(1)}
    /\ sceneRef = 1
    /\ scenes = <<NumFish>>
    /\ cameraRef = 1
    /\ cameras = <<Frustum(innerWidth, innerHeight)>>
    /\ rendererRef = 1
    /\ renderers = <<NewRenderer(innerWidth, innerHeight)>>
    /\ canvasRef = 1
    /\ canvases = <<NewCanvas(innerWidth, innerHeight)>>
    /\ animationRef = 1
    /\ pending = {1}
    /\ nextHandle = 1
    /\ listeners = {1}
    /\ effects = <<[pc |-> "done", active |-> TRUE]>>
    /\ errorLog = 0
    /\ thrown = {}
    /\ stageLog = <<>>
    /\ frames = 0
    /\ lastOp = "model"

NextFlock ==
    \/ \E h \in pending, j \in 1..Len(Jitters) : Tick(h, j)
    \/ \E vp \in Viewports : Resize(vp[1], vp[2])
    \/ \E pt \in Pointers : MouseMove(pt[1], pt[2])

SpecFlock == InitFlock /\ [][NextFlock]_vars

-----------------------------------------------------------------------------
(* Specification of the flock step as a function: the scene is running, the *)
(* flock is in a state a run can have brought it to (agents at or beyond a  *)
(* bound, slow agents, agents on the same spot), and frames tick.           *)

\* Flocks the step is applied to, one entry per fish (used cyclically). a
\* selects the bound the position is given from (-1, 0 or 1 times halfWidth,
\* halfHeight and the z bound), p is the offset from there and v the
\* velocity, both in model units (Unit per 1.0).
StepDraws ==
    << \* beyond the right bound moving out; crossing the z bound; crossing
       \* the lower y and z bounds
       << [a |-> Vec(1, 0, 0), p |-> Vec(3 * Unit, 0, 0), v |-> Vec(2 * Unit, 0, 0)],
          [a |-> Vec(0, 0, 1), p |-> Vec(0, 0, -100), v |-> Vec(0, 0, 2 * Unit)],
          [a |-> Vec(0, -1, -1), p |-> Vec(0, 50, 50), v |-> Vec(0, -300, -300)] >>,
       \* beyond a bound moving back in (after a viewport shrink)
       << [a |-> Vec(1, 0, 0), p |-> Vec(40 * Unit, 0, 0), v |-> Vec(-Unit, 0, 0)],
          [a |-> Vec(0, -1, 0), p |-> Vec(0, -30 * Unit, 0), v |-> Vec(0, Unit, 50)],
          [a |-> Vec(-1, 0, 0), p |-> Vec(-20 * Unit, 0, 0), v |-> Vec(Unit, 0, 0)] >>,
       \* slow fish far from each other
       << [a |-> Vec(1, -1, 0), p |-> Vec(-10 * Unit, 10 * Unit, 0), v |-> Vec(2, 0, 0)],
          [a |-> Vec(-1, -1, 0), p |-> Vec(10 * Unit, 10 * Unit, 0), v |-> Vec(3, 0, 0)],
          [a |-> Vec(0, 1, 0), p |-> Vec(0, -10 * Unit, 0), v |-> Vec(0, 0, 0)] >>,
       \* fish on the same spot, which is where the pointer <<160, 90>> is in
       \* the small viewport
       << [a |-> Vec(0, 0, 0), p |-> Vec(10 * Unit, 10 * Unit, 0), v |-> Vec(0, 0, 0)],
          [a |-> Vec(0, 0, 0), p |-> Vec(10 * Unit, 10 * Unit, 0), v |-> Vec(100, 0, 0)],
          [a |-> Vec(0, 0, 0), p |-> Vec(10 * Unit, 10 * Unit, 0), v |-> Vec(0, 0, 0)] >>,
       \* fish within each other's separation radius
       << [a |-> Vec(0, 0, 0), p |-> Vec(0, 0, 0), v |-> Vec(Unit, 0, 0)],
          [a |-> Vec(0, 0, 0), p |-> Vec(30 * Unit, 0, 0), v |-> Vec(0, Unit, 0)],
          [a |-> Vec(0, 0, 0), p |-> Vec(0, 40 * Unit, 0), v |-> Vec(0, 0, 100)] >> >>

StepDraw(n, i) == StepDraws[n][(i % Len(StepDraws[n])) + 1]

StepPosition(n, i, w, h) ==
    LET dr == StepDraw(n, i)
    IN  Vec(dr.a.x * halfWidthOf(w) + dr.p.x,
            dr.a.y * halfHeightOf(h) + dr.p.y,
            dr.a.z * zBound + dr.p.z)

\* The flock of draw n in a w x h viewport, its meshes in scene sceneId.
StepFlock(n, sceneId, w, h) ==
    [k \in 1..NumFish |->
        Fish(k - 1, StepPosition(n, k - 1, w, h), StepDraw(n, k - 1).v, sceneId)]

InitStep ==
    /\ impl \in {"app", "mod"}
    /\ \E vp \in Viewports : innerWidth = vp[1] /\ innerHeight = vp[2]
    /\ \E pt \in Pointers : mouseRef = [x |-> pt[1], y |-> pt[2]]
    /\ \E n \in 1..Len(StepDraws) : fishesRef = StepFlock(n, 1, innerWidth, innerHeight)
    /\ starsRef = initializeStars(1, innerWidth, innerHeight)
    /\ fishModelRef = 1
    /\ mountRef = "div"
    /\ mountChildren = {RendererElement(1), CanvasElement(1)}
    /\ sceneRef = 1
    /\ scenes = <<NumFish>>
    /\ cameraRef = 1
    /\ cameras = <<Frustum(innerWidth, innerHeight)>>
    /\ rendererRef = 1
    /\ renderers = <<NewRenderer(innerWidth, innerHeight)>>
    /\ canvasRef = 1
    /\ canvases = <<NewCanvas(innerWidth, innerHeight)>>
    /\ animationRef = 1
    /\ pending = {1}
    /\ nextHandle = 1
    /\ listeners = {1}
    /\ effects = <<[pc |-> "done", active |-> TRUE]>>
    /\ errorLog = 0
    /\ thrown = {}
    /\ stageLog = <<>>
    /\ frames = 0
    /\ lastOp = "resize"

NextStep == \E h \in pending, j \in 1..Len(Jitters) : Tick(h, j)

SpecStep == InitStep /\ [][NextStep]_vars

-----------------------------------------------------------------------------
(* Claims about the flock step (checked under SpecFlock)                   *)

\* The step is a tick.
IsTick == frames' = frames + 1

InBounds(fish) ==
    /\ ~OutOfBound(fish.position.x, halfWidthOf(innerWidth))
    /\ ~OutOfBound(fish.position.y, halfHeightOf(innerHeight))
    /\ ~OutOfBound(fish.position.z, zBound)

SpeedOk(fish) == LengthSq(fish.velocity) <= maxSpeed(impl) * maxSpeed(impl)

\* C1: in every reachable state (right after the flock is created and after
\* every flock step) the velocity magnitude of every agent is at most
\* maxSpeed (3 in App.tsx, 5 in the fish-animation module).
C1_SpeedCapped == \A k \in 1..Len(fishesRef) : SpeedOk(fishesRef[k])

\* C1 witness: after two or more flock steps some agent moves at more than
\* 97 percent of maxSpeed, which only the cap (rescale to maxSpeed, then
\* damping) produces from the spawn velocities.
C1_Witness ==
    /\ lastOp = "tick"
    /\ frames >= 2
    /\ \E k \in 1..Len(fishesRef) :
          /\ SpeedOk(fishesRef[k])
          /\ 10000 * LengthSq(VScale(fishesRef[k].velocity, 1, 10))
                > 97 * 97 * LengthSq(VScale(Vec(maxSpeed(impl), 0, 0), 1, 10))

\* The box fish are spawned in: 400 x 400 x 100 around the origin, whatever
\* the viewport is.
InSpawnBox(fish) ==
    /\ ~OutOfBound(fish.position.x, 200 * Unit)
    /\ ~OutOfBound(fish.position.y, 200 * Unit)
    /\ ~OutOfBound(fish.position.z, 50 * Unit)

\* C2 (as stated): in every reachable state, also right after flock creation
\* and between ticks after a resize, every agent's position is within
\* [-halfWidth, halfWidth] x [-halfHeight, halfHeight] x [-100, 100] of the
\* current viewport.
C2_AlwaysInBounds == \A k \in 1..Len(fishesRef) : InBounds(fishesRef[k])

\* C2 (amended): after every flock step every agent's position is within the
\* bounds of the viewport in force at that step, and right after creation
\* every agent's position is within the spawn box, which does not depend on
\* the viewport.
C2_InBoundsAfterStep ==
    /\ lastOp = "tick" => \A k \in 1..Len(fishesRef) : InBounds(fishesRef[k])
    /\ lastOp = "model" => \A k \in 1..Len(fishesRef) : InSpawnBox(fishesRef[k])

\* C2 witness: a flock step has just put an agent exactly on the x bound of
\* a viewport narrower than the spawn box, with its x velocity turned inward.
C2_Witness ==
    /\ lastOp = "tick"
    /\ halfWidthOf(innerWidth) < 200 * Unit
    /\ \E k \in 1..Len(fishesRef) :
          /\ fishesRef[k].position.x = halfWidthOf(innerWidth)
          /\ fishesRef[k].velocity.x < 0

-----------------------------------------------------------------------------
(* Claims about the lifecycle (checked under Spec)                         *)

\* Every effect that has run has been cleaned up, and at least one has run.
TornDown == effects # <<>> /\ NoActiveEffect

\* C3: once the effect cleanup has run (and the effect has not run again),
\* no frame callback is pending, so no tick executes and none is scheduled,
\* whatever the order of the cleanup and the asynchronous initialisation.
C3_NoFrameAfterTeardown == TornDown => (pending = {} /\ lastOp # "tick")

\* C4: every tick leaves the frame callback it has just requested pending,
\* and a pending callback goes away without replacement only by the cleanup.
C4_TickReschedules ==
    [][ /\ frames' = frames + 1 =>
              /\ nextHandle' = nextHandle + 1
              /\ animationRef' = nextHandle'
              /\ animationRef' \in pending'
              /\ Cardinality(pending') = Cardinality(pending)
        /\ Cardinality(pending') < Cardinality(pending) => lastOp' = "cleanup" ]_vars

\* C4 witness: the loop has ticked as often as the exploration allows, the
\* last tick ran before any fish existed, and its successor is pending.
C4_Witness ==
    /\ lastOp = "tick"
    /\ frames = LifeFrames
    /\ fishesRef = <<>>
    /\ animationRef \in pending

\* C5: a tick performs starfield, flock step, scene render and rescheduling
\* in this order, each exactly once.
C5_StageOrder == lastOp = "tick" => stageLog = <<"stars", "flock", "render", "schedule">>

\* C5 witness: a tick over a populated flock has advanced the stars and
\* requested the next frame.
C5_Witness ==
    /\ lastOp = "tick"
    /\ fishesRef # <<>>
    /\ starsRef # <<>>
    /\ stageLog # <<>>
    /\ animationRef \in pending

\* C6: at most one frame callback is pending at any time.
C6_OneFramePending == Cardinality(pending) <= 1

\* C7: no cleanup raises an error (removeChild of an element that is not a
\* child of the mount raises NotFoundError).
C7_TeardownRaisesNothing == \A t \in thrown : t[1] # "NotFoundError"

\* C8: once the cleanup has run, no element created by the component is a
\* child of the mount the component still holds, and every renderer that
\* was created is disposed.
C8_ReleasedAfterTeardown ==
    TornDown =>
        /\ mountRef = "div" => mountChildren = {}
        /\ \A r \in 1..Len(renderers) : renderers[r].created => renderers[r].disposed

\* C9: a step on which the model load fails logs exactly one error, raises
\* nothing, leaves the flock and the stored model alone and keeps every
\* pending frame (the split component requests its first frame on it); as
\* long as no model was stored the flock is empty; and a tick without a
\* model still advances the stars and requests the next frame.
C9_LoadFailureContained ==
    [][ /\ (lastOp' = "model" /\ fishModelRef' = fishModelRef) =>
              /\ errorLog' = errorLog + 1
              /\ thrown' = thrown
              /\ fishesRef' = fishesRef
              /\ pending \subseteq pending'
              /\ impl = "mod" => animationRef' \in pending'
        /\ fishModelRef' = 0 => fishesRef' = <<>>
        /\ (frames' = frames + 1 /\ fishModelRef = 0) =>
              /\ starsRef' = drawStars(canvasRef, starsRef)
              /\ starsRef' # starsRef
              /\ animationRef' \in pending' ]_vars

\* C9 witness: the load has failed, nothing was raised, and the loop has
\* ticked twice over the empty flock with the next frame pending.
C9_Witness ==
    /\ errorLog > 0
    /\ fishModelRef = 0
    /\ fishesRef = <<>>
    /\ thrown = {}
    /\ lastOp = "tick"
    /\ frames = LifeFrames
    /\ pending # {}

\* C10: fish are created in one batch per scene: no scene ever holds more
\* fish meshes than one batch, and the agents are one batch with pairwise
\* distinct ids.
C10_SingleBatch ==
    /\ \A s \in 1..Len(scenes) : scenes[s] \in {0, NumFish}
    /\ Len(fishesRef) \in {0, NumFish}
    /\ \A k, m \in 1..Len(fishesRef) : k # m => fishesRef[k].id # fishesRef[m].id

\* C12: the star set has the size it was created with (NumStars here, 80 in
\* the code); no tick, pointer move or resize changes that size or any
\* star's x, y or baseOpacity; a pointer move or a resize leaves the stars
\* as they are, and a tick changes twinklePhase (and with it opacity) only.
C12_StarsFixed ==
    [][ /\ Len(starsRef) = NumStars
        /\ Len(starsRef') = Len(starsRef)
        /\ \A i \in 1..Len(starsRef) :
              /\ starsRef'[i].x = starsRef[i].x
              /\ starsRef'[i].y = starsRef[i].y
              /\ starsRef'[i].baseOpacity = starsRef[i].baseOpacity
              /\ IsTick => starsRef'[i].twinklePhase = starsRef[i].twinklePhase + 20
        /\ ~IsTick => starsRef' = starsRef ]_vars

\* C12 witness: after ticks and a shrinking resize a star created for the
\* wide viewport lies beyond the right edge of the current one.
C12_Witness ==
    /\ lastOp = "resize"
    /\ frames >= 1
    /\ \E i \in 1..Len(starsRef) :
          /\ starsRef[i].x > innerWidth
          /\ starsRef[i].twinklePhase \notin {d.twinklePhase : d \in {StarDraws[n] : n \in 1..Len(StarDraws)}}

\* C13 (as stated): in every reachable state, the one right after star
\* initialisation included, every star's opacity is within 0.1 of its
\* baseOpacity.
C13_OpacityAlwaysNearBase ==
    \A i \in 1..Len(starsRef) : Abs(starsRef[i].opacity - starsRef[i].baseOpacity) <= 100

\* C13 (amended): once the stars have been advanced at least once, every
\* star's opacity is within 0.1 of its baseOpacity.
C13_OpacityNearBaseOnceAdvanced ==
    frames >= 1 =>
        \A i \in 1..Len(starsRef) : Abs(starsRef[i].opacity - starsRef[i].baseOpacity) <= 100

\* C13 witness: an advance has put a star at the top of its range,
\* baseOpacity + 0.1.
C13_Witness ==
    /\ frames >= 1
    /\ \E i \in 1..Len(starsRef) : starsRef[i].opacity = starsRef[i].baseOpacity + 100

-----------------------------------------------------------------------------
(* Claims about one flock step (checked under SpecStep)                    *)

\* The list fish k of a tick reads: the fish before it as the tick leaves
\* them, itself and the fish after it as the tick found them.
SeenBy(k) ==
    [i \in 1..Len(fishesRef) |-> IF i < k THEN fishesRef'[i] ELSE fishesRef[i]]

\* Velocity and position of fish k right after the position update of a
\* tick with jitter draw j, before the boundary stage.
\* (The set comprehensions only name a value that is used more than once.)
BeforeBounds(k, j) ==
    LET fish == fishesRef[k]
        jitter == JitterDraw(j, Len(fishesRef))[k]
        forces == {applyBoidRules(fish, seen, mouseRef, innerWidth, innerHeight) :
                       seen \in {SeenBy(k)}}
        vels == {Damp(LimitSpeed(VAdd(VAdd(fish.velocity, force), jitter), impl), impl) :
                     force \in forces}
    IN  CHOOSE b \in {[velocity |-> vel, position |-> VAdd(fish.position, vel)] :
                          vel \in vels} : TRUE

\* One axis of the boundary stage: from position a and velocity component
\* vel to a2 and vel2; -0.8 times vel is taken to the nearest model unit.
AxisReflected(a, vel, a2, vel2, bound) ==
    /\ a > bound => (a2 = bound /\ Abs(10 * vel2 + 8 * vel) <= 5)
    /\ a < -bound => (a2 = -bound /\ Abs(10 * vel2 + 8 * vel) <= 5)
    /\ (a >= -bound /\ a <= bound) => (a2 = a /\ vel2 = vel)

\* C11: in a flock step, on each axis, a position that the position update
\* left outside the bound is clamped to the bound exceeded and the velocity
\* component becomes -0.8 times what it was; inside the bound neither
\* component is changed by the boundary stage.
C11_BoundaryReflection ==
    [][ IsTick =>
          \E j \in 1..Len(Jitters) : \A k \in 1..Len(fishesRef) :
              \A b \in {BeforeBounds(k, j)}, after \in {fishesRef'[k]} :
                  /\ AxisReflected(b.position.x, b.velocity.x, after.position.x,
                                   after.velocity.x, halfWidthOf(innerWidth))
                  /\ AxisReflected(b.position.y, b.velocity.y, after.position.y,
                                   after.velocity.y, halfHeightOf(innerHeight))
                  /\ AxisReflected(b.position.z, b.velocity.z, after.position.z,
                                   after.velocity.z, 100 * Unit) ]_vars

\* C11 witness: one step has put an agent that was moving up on the upper z
\* bound with its z velocity turned down, and left its x and y alone.
C11_Witness ==
    /\ lastOp = "tick"
    /\ frames = 1
    /\ \E k \in 1..Len(fishesRef) :
          /\ fishesRef[k].position.z = 100 * Unit
          /\ fishesRef[k].velocity.z < 0
          /\ fishesRef[k].position.x = 0
          /\ fishesRef[k].velocity.x \in {0, 1}

\* No other fish of the list within reach of fish and the pointer not
\* within reach + margin of it (reach: the largest neighbor radius, 120;
\* the pointer radius, 200).
Isolated(fish, fishes, margin) ==
    /\ \A i \in 1..Len(fishes) :
          fishes[i].id # fish.id =>
              ~Within(VSub(fish.position, fishes[i].position), 120 * Unit + margin)
    /\ ~Within(VSub(MousePos(mouseRef, innerWidth, innerHeight), fish.position),
               200 * Unit + margin)

\* C14: in a flock step, an agent that has every other agent at distance
\* 120 or more and the pointer at distance 200 or more gets a steering force
\* of exactly zero: its velocity before the boundary stage is its old
\* velocity plus jitter, capped and damped.
C14_IsolatedNoForce ==
    [][ IsTick =>
          \E j \in 1..Len(Jitters) : \A k \in 1..Len(fishesRef) :
              Isolated(fishesRef[k], SeenBy(k), 0) =>
                  LET fish == fishesRef[k]
                      after == fishesRef'[k]
                      jitter == JitterDraw(j, Len(fishesRef))[k]
                      vel == Damp(LimitSpeed(VAdd(fish.velocity, jitter), impl), impl)
                      pos == VAdd(fish.position, vel)
                  IN  /\ applyBoidRules(fish, SeenBy(k), mouseRef, innerWidth,
                                        innerHeight) = Zero3
                      /\ AxisReflected(pos.x, vel.x, after.position.x, after.velocity.x,
                                       halfWidthOf(innerWidth))
                      /\ AxisReflected(pos.y, vel.y, after.position.y, after.velocity.y,
                                       halfHeightOf(innerHeight))
                      /\ AxisReflected(pos.z, vel.z, after.position.z, after.velocity.z,
                                       100 * Unit) ]_vars

\* C14 witness: after a step a moving agent is still farther than 140 from
\* every other agent and farther than 220 from the pointer, so it was
\* isolated during the step.
C14_Witness ==
    /\ lastOp = "tick"
    /\ frames = 1
    /\ \E k \in 1..Len(fishesRef) :
          /\ Isolated(fishesRef[k], fishesRef, 20 * Unit)
          /\ fishesRef[k].velocity # Zero3

\* A position or velocity with three defined (integer) components.
Defined(v) == v.x \in Int /\ v.y \in Int /\ v.z \in Int

\* C15: a neighbor at exactly zero distance adds nothing to separation; a
\* pointer exactly at the agent's position attracts with zero force; a rule
\* that counted no neighbor contributes zero; and every agent has a defined
\* position and velocity, with no error raised, also after a step on a
\* flock with agents on the same spot.
C15_DegenerateGeometry ==
    /\ \A k, m \in 1..Len(fishesRef) :
          (k # m /\ fishesRef[k].position = fishesRef[m].position) =>
              /\ ~Separates(VSub(fishesRef[k].position, fishesRef[m].position))
              /\ VisitNeighbor(NoNeighbors, fishesRef[k], fishesRef[m]).separationCount = 0
              /\ VisitNeighbor(NoNeighbors, fishesRef[k], fishesRef[m]).separation = Zero3
    /\ \A k \in 1..Len(fishesRef) :
          LET fish == fishesRef[k]
              acc == VisitNeighbors(NoNeighbors, fish, fishesRef, 1)
          IN  /\ MousePos(mouseRef, innerWidth, innerHeight) = fish.position =>
                    MouseAttraction(fish, mouseRef, innerWidth, innerHeight) = Zero3
              /\ acc.separationCount = 0 => SeparationForce(acc) = Zero3
              /\ acc.alignmentCount = 0 => AlignmentForce(acc) = Zero3
              /\ acc.cohesionCount = 0 => CohesionForce(acc, fish) = Zero3
              /\ Defined(applyBoidRules(fish, fishesRef, mouseRef, innerWidth, innerHeight))
              /\ Defined(fish.position)
              /\ Defined(fish.velocity)
              /\ Defined(fish.mesh.rotation)
    /\ thrown = {}

\* C15 witness: one step has been taken on the flock whose agents all
\* started on the pointer's spot; they are still within 1.0 of each other
\* and of that spot.
C15_Witness ==
    /\ lastOp = "tick"
    /\ frames = 1
    /\ \A k \in 1..Len(fishesRef) :
          MaxAbs(VSub(fishesRef[k].position, Vec(10 * Unit, 10 * Unit, 0))) <= Unit
    /\ \E k, m \in 1..Len(fishesRef) : fishesRef[k].position # fishesRef[m].position

\* C16: a tick leaves the pointer and the viewport size as they are; they
\* change only on a pointer move or a resize, which leave the flock and the
\* frame count alone; and every agent of a tick is stepped with the pointer
\* and the viewport size stored when the tick began.
C16_InputsBetweenTicks ==
    [][ /\ IsTick =>
              /\ mouseRef' = mouseRef
              /\ innerWidth' = innerWidth
              /\ innerHeight' = innerHeight
              /\ \E j \in 1..Len(Jitters) : \A k \in 1..Len(fishesRef) :
                    \A b \in {BeforeBounds(k, j)}, after \in {fishesRef'[k]} :
                        /\ AxisReflected(b.position.x, b.velocity.x, after.position.x,
                                         after.velocity.x, halfWidthOf(innerWidth))
                        /\ AxisReflected(b.position.y, b.velocity.y, after.position.y,
                                         after.velocity.y, halfHeightOf(innerHeight))
        /\ mouseRef' # mouseRef =>
              (lastOp' = "mousemove" /\ fishesRef' = fishesRef /\ frames' = frames)
        /\ (innerWidth' # innerWidth \/ innerHeight' # innerHeight) =>
              (lastOp' = "resize" /\ fishesRef' = fishesRef /\ frames' = frames) ]_vars

\* C16 witness: the pointer was moved and the window resized to the small
\* viewport, and a later tick has stepped agents that are within the
\* pointer's attraction radius.
C16_Witness ==
    /\ lastOp = "tick"
    /\ frames >= 2
    /\ mouseRef = [x |-> 160, y |-> 90]
    /\ cameras[1] = Frustum(300, 200)
    /\ \A k \in 1..Len(fishesRef) :
          Within(VSub(MousePos(mouseRef, innerWidth, innerHeight), fishesRef[k].position),
                 mouseAttractionRadius)

\* C17: in a flock step, an agent whose velocity at the end of the step is
\* longer than 0.01 (two model units) has its orientation set to the
\* direction of that velocity; at or below 0.01 its orientation is exactly
\* what it was before the step.
C17_OrientationThreshold ==
    [][ IsTick =>
          \A k \in 1..Len(fishesRef) : \A after \in {fishesRef'[k]} :
              /\ LengthSq(after.velocity) > (Unit \div 100) * (Unit \div 100) =>
                    /\ after.mesh.rotation = SetLength(after.velocity, Unit)
                    /\ after.mesh.rotation # Zero3
              /\ LengthSq(after.velocity) <= (Unit \div 100) * (Unit \div 100) =>
                    after.mesh.rotation = fishesRef[k].mesh.rotation
              /\ after.mesh.position = after.position ]_vars

\* C17 witness: after a step one agent moves at exactly 0.01 and still has
\* the orientation it was created with, while another moves faster and has
\* been turned.
C17_Witness ==
    /\ lastOp = "tick"
    /\ \E k, m \in 1..Len(fishesRef) :
          /\ LengthSq(fishesRef[k].velocity) = (Unit \div 100) * (Unit \div 100)
          /\ fishesRef[k].mesh.rotation = Zero3
          /\ LengthSq(fishesRef[m].velocity) > (Unit \div 100) * (Unit \div 100)
          /\ fishesRef[m].mesh.rotation # Zero3

\* One axis of a reflection that turns the agent back: beyond the upper
\* bound the velocity component ends up non-positive, beyond the lower
\* bound non-negative.
TurnedInward(a, vel2, bound) ==
    /\ a > bound => vel2 <= 0
    /\ a < -bound => vel2 >= 0

\* C18: whenever a flock step reflects an agent on an axis, the velocity
\* component it leaves on that axis points from the bound exceeded toward
\* the interior or is zero, also for an agent that began the step outside
\* the bounds.
C18_ReflectsInward ==
    [][ IsTick =>
          \E j \in 1..Len(Jitters) : \A k \in 1..Len(fishesRef) :
              \A b \in {BeforeBounds(k, j)}, after \in {fishesRef'[k]} :
                  /\ TurnedInward(b.position.x, after.velocity.x, halfWidthOf(innerWidth))
                  /\ TurnedInward(b.position.y, after.velocity.y, halfHeightOf(innerHeight))
                  /\ TurnedInward(b.position.z, after.velocity.z, 100 * Unit) ]_vars

\* C19: a flock step updates the agents one after the other in list order
\* and in place: the agent at index k is stepped against the list in which
\* the agents below k are already updated and the agents from k on are not.
C19_SequentialInPlace ==
    [][ IsTick =>
          \E j \in 1..Len(Jitters) : \A k \in 1..Len(fishesRef) :
              \A seen \in {SeenBy(k)} :
                  fishesRef'[k] = StepFish(fishesRef[k], seen,
                                            JitterDraw(j, Len(fishesRef))[k],
                                            mouseRef, innerWidth, innerHeight, impl) ]_vars

\* C19 witness: a step has been taken and, in the state it left, stepping
\* the agents in list order gives another result than stepping each of them
\* against the unchanged list: the order of the list matters.
C19_Witness ==
    /\ lastOp = "tick"
    /\ frames >= 1
    /\ \E k \in 1..Len(fishesRef) : \A nextSeq \in {updateFishAnimation(fishesRef,
                    JitterDraw(1, Len(fishesRef)), mouseRef, innerWidth, innerHeight, impl)} :
          /\ k > 1
          /\ nextSeq[k] # StepFish(fishesRef[k], fishesRef, JitterDraw(1, Len(fishesRef))[k],
                                   mouseRef, innerWidth, innerHeight, impl)
          /\ nextSeq[1] = StepFish(fishesRef[1], fishesRef, JitterDraw(1, Len(fishesRef))[1],
                                   mouseRef, innerWidth, innerHeight, impl)

====
